---- MODULE Spec2Model ----
(***************************************************************************)
(* A model of the qBittorrent Web API client of src/src/index.ts: the      *)
(* session gate of QBittorrent.request / login / logout with its await     *)
(* points, the endpoint wrappers with the parameters they marshal, and the *)
(* state normalizer with getTorrent / getAllData built on it.              *)
(*                                                                         *)
(* Every asynchronous caller is a process.  An await of the code is a      *)
(* place where the process stops and any other caller may run: the model   *)
(* has one action for each synchronous stretch of a handler.               *)
(***************************************************************************)
EXTENDS Integers, Sequences, FiniteSets, TLC

(***************************************************************************)
(* Bounds of the model.                                                    *)
(***************************************************************************)
\* Number of concurrent callers sharing one client.
NumProcs == 2
\* Number of operations started in one behaviour (caps the counters).
MaxOps == 3
\* Longest torrent list the daemon answers with.
MaxTorrents == 2

Procs == 1..NumProcs

(***************************************************************************)
(* JavaScript values.  A value that is a string or undefined is a string   *)
(* here, with Undefined standing for the value undefined.                  *)
(***************************************************************************)
Undefined == "<undefined>"

\* JavaScript truthiness of a string-or-undefined value: `if (v)`, `!v`.
Truthy(v) == v # Undefined /\ v # ""

\* A template literal `${v}` renders undefined as the text "undefined".
TemplateString(v) == IF v = Undefined THEN "undefined" ELSE v

\* Session tokens the daemon hands out: the values of its SID cookies,
\* which are never empty.
Tokens == {"tokA", "tokB"}

\* const defaults, and the options a constructor call may merge over them.
defaults == [baseUrl |-> "http://localhost:9091/", path |-> "/api/v2",
             username |-> "", password |-> "", timeout |-> 5000]

\* The constructor: { ...defaults, ...options }, for the options {}.
Configs == {defaults}

(***************************************************************************)
(* Hash arguments: string | string[].                                      *)
(***************************************************************************)
NoHashes == [t |-> "undefined", s |-> "", a |-> <<>>]
HashString(s) == [t |-> "string", s |-> s, a |-> <<>>]
HashArray(a) == [t |-> "array", s |-> "", a |-> a]

RECURSIVE JoinPipe(_)
\* Array.prototype.join('|')
JoinPipe(a) ==
  IF Len(a) = 0 THEN ""
  ELSE IF Len(a) = 1 THEN a[1]
  ELSE a[1] \o "|" \o JoinPipe(Tail(a))

\* QBittorrent._normalizeHashes
NormalizeHashes(h) == IF h.t = "array" THEN JoinPipe(h.a) ELSE h.s

\* `if (hashes)`: undefined and "" are falsy, every array is truthy.
TruthyHashes(h) ==
  CASE h.t = "undefined" -> FALSE
    [] h.t = "string" -> h.s # ""
    [] h.t = "array" -> TRUE

(***************************************************************************)
(* Calls of the public operations.  A call is the operation's name with    *)
(* the arguments of listTorrents (hashes, filter, category) and the hash   *)
(* set of the bulk operations; the other arguments are fixed samples.      *)
(***************************************************************************)
Call(name, hashes, filter, category) ==
  [name |-> name, hashes |-> hashes, filter |-> filter, category |-> category]

\* Operations whose only parameter is one torrent hash.
HashOps == {"torrentProperties", "torrentTrackers", "torrentWebSeeds",
            "torrentFiles", "torrentPieceStates", "torrentPieceHashes"}

\* Operations whose only parameter is a hash set, sent as the query.
HashesOps == {"pauseTorrent", "resumeTorrent", "recheckTorrent",
              "reannounceTorrent", "queueUp", "queueDown", "topPriority",
              "bottomPriority"}

\* Operations that send their parameters as a POST body.
PostOps == {"setTorrentLocation", "setTorrentName", "createCategory",
            "removeCategory", "setTorrentCategory", "addTorrent"}

TrackerOps == {"addTrackers", "editTrackers", "removeTrackers"}

\* The operations that call request themselves.
DirectOps == {"version", "listTorrents", "setFilePriority", "removeTorrent"}
             \cup HashOps \cup HashesOps \cup PostOps \cup TrackerOps

\* getTorrent and getAllData reach request through listTorrents.
ListOps == {"listTorrents", "getTorrent", "getAllData"}

\* The method whose body holds the call of request made for call c.
Requester(c) == IF c.name \in ListOps THEN "listTorrents" ELSE c.name

\* The listTorrents call made for c: getTorrent(hash) calls
\* listTorrents(hash), getAllData calls listTorrents().
ListCall(c) ==
  CASE c.name = "getTorrent" ->
         Call("listTorrents", c.hashes, Undefined, Undefined)
    [] c.name = "getAllData" ->
         Call("listTorrents", NoHashes, Undefined, Undefined)
    [] OTHER -> c

\* The first argument each method passes to request.
EndpointPath(name) ==
  CASE name = "version" -> "/app/version"
    [] name = "listTorrents" -> "/torrents/info"
    [] name = "torrentProperties" -> "/torrents/properties"
    [] name = "torrentTrackers" -> "/torrents/trackers"
    [] name = "torrentWebSeeds" -> "/torrents/webseeds"
    [] name = "torrentFiles" -> "/torrents/files"
    [] name = "setFilePriority" -> "/torrents/filePrio"
    [] name = "torrentPieceStates" -> "/torrents/pieceStates"
    [] name = "torrentPieceHashes" -> "/torrents/pieceHashes"
    [] name = "setTorrentLocation" -> "/torrents/setLocation"
    [] name = "setTorrentName" -> "/torrents/rename"
    [] name = "createCategory" -> "/torrents/createCategory"
    [] name = "removeCategory" -> "/torrents/removeCategories"
    [] name = "setTorrentCategory" -> "/torrents/setCategory"
    [] name = "pauseTorrent" -> "/torrents/pause"
    [] name = "resumeTorrent" -> "/torrents/resume"
    [] name = "removeTorrent" -> "/torrents/delete"
    [] name = "recheckTorrent" -> "/torrents/recheck"
    [] name = "reannounceTorrent" -> "/torrents/reannounce"
    [] name = "addTorrent" -> "/torrents/add"
    [] name = "addTrackers" -> "/torrents/addTrackers"
    [] name = "editTrackers" -> "/torrents/editTrackers"
    [] name = "removeTrackers" -> "/torrents/editTrackers"
    [] name = "queueUp" -> "/torrents/increasePrio"
    [] name = "queueDown" -> "/torrents/decreasePrio"
    [] name = "topPriority" -> "/torrents/topPrio"
    [] name = "bottomPriority" -> "/torrents/bottomPrio"

\* The second argument each method passes to request.
Method(name) == IF name \in PostOps THEN "POST" ELSE "GET"

\* The last argument: json is false for version and addTorrent only.
WantsJSON(name) == name \notin {"version", "addTorrent"}

EmptyParams == <<>>

\* listTorrents builds params from the arguments that are truthy.
ListParams(c) ==
  (IF TruthyHashes(c.hashes)
     THEN "hashes" :> NormalizeHashes(c.hashes) ELSE EmptyParams)
  @@ (IF Truthy(c.filter) THEN "filter" :> c.filter ELSE EmptyParams)
  @@ (IF Truthy(c.category) THEN "category" :> c.category ELSE EmptyParams)

\* The query parameters each method passes to request (params = {} when
\* the method passes undefined).
Params(c) ==
  CASE c.name = "listTorrents" -> ListParams(c)
    [] c.name \in HashOps -> "hash" :> "h1"
    [] c.name \in HashesOps -> "hashes" :> NormalizeHashes(c.hashes)
    [] c.name = "removeTorrent" ->
         ("hashes" :> NormalizeHashes(c.hashes)) @@ ("deleteFiles" :> "true")
    [] c.name = "setFilePriority" ->
         ("hash" :> "h1") @@ ("id" :> NormalizeHashes(c.hashes))
         @@ ("priority" :> "1")
    [] c.name \in {"addTrackers", "removeTrackers"} ->
         ("hash" :> "h1") @@ ("urls" :> "udp://tracker.example/announce")
    [] c.name = "editTrackers" ->
         ("hash" :> "h1") @@ ("origUrl" :> "udp://tracker.example/announce")
         @@ ("newUrl" :> "udp://tracker.example.org/announce")
    [] OTHER -> EmptyParams

\* The body each method passes to request (undefined: no body).
Body(c) ==
  CASE c.name = "setTorrentLocation" ->
         ("hashes" :> NormalizeHashes(c.hashes)) @@ ("location" :> "/data")
    [] c.name = "setTorrentName" ->
         ("hashes" :> NormalizeHashes(c.hashes)) @@ ("name" :> "renamed")
    [] c.name \in {"createCategory", "removeCategory"} ->
         "category" :> "movies"
    [] c.name = "setTorrentCategory" ->
         ("hashes" :> NormalizeHashes(c.hashes)) @@ ("category" :> "movies")
    [] c.name = "addTorrent" -> "file" :> "torrent"
    [] OTHER -> EmptyParams

NoReq == [kind |-> "none"]

\* The request object QBittorrent.request hands to got, built for the
\* direct call d from the session token s the client holds at that moment.
BuildRequest(d, cfg, s) ==
  [kind |-> "target",
   op |-> d.name,
   url |-> <<cfg.baseUrl, cfg.path, EndpointPath(d.name)>>,
   path |-> EndpointPath(d.name),
   method |-> Method(d.name),
   cookie |-> "SID=" \o TemplateString(s),
   retry |-> 0,
   json |-> WantsJSON(d.name),
   body |-> Body(d),
   query |-> Params(d)]

\* The request object QBittorrent.login hands to got.post.
LoginRequest(cfg) ==
  [kind |-> "login",
   url |-> <<cfg.baseUrl, cfg.path, "/auth/login">>,
   form |-> [username |-> cfg.username, password |-> cfg.password],
   followRedirect |-> FALSE,
   retry |-> 0]

(***************************************************************************)
(* The state normalizer.                                                   *)
(***************************************************************************)
\* The daemon's torrent states (enum TorrentState of ./types, imported as
\* qbtState): a string enum whose members are the daemon's state names.
qbtState ==
  [Error |-> "error", PausedUP |-> "pausedUP", PausedDL |-> "pausedDL",
   QueuedUP |-> "queuedUP", QueuedDL |-> "queuedDL",
   Uploading |-> "uploading", StalledUP |-> "stalledUP",
   CheckingUP |-> "checkingUP", CheckingDL |-> "checkingDL",
   Downloading |-> "downloading", StalledDL |-> "stalledDL",
   MetaDL |-> "metaDL", ForcedUP |-> "forcedUP"]

RawStates == {qbtState[k] : k \in DOMAIN qbtState}

\* The normalized states (enum TorrentState of @ctrl/shared-torrent).
TorrentState ==
  [unknown |-> "unknown", downloading |-> "downloading",
   seeding |-> "seeding", checking |-> "checking", error |-> "error",
   queued |-> "queued", paused |-> "paused"]

\* The if / else-if chain of _normalizeTorrentData.  The first condition is
\* `torrent.state === qbtState.Uploading || qbtState.CheckingUP`: its
\* second operand is the enum member itself, tested for truthiness.
NormalizeState(raw) ==
  IF raw = qbtState.Uploading \/ Truthy(qbtState.CheckingUP)
    THEN TorrentState.seeding
  ELSE IF raw = qbtState.Downloading THEN TorrentState.downloading
  ELSE IF raw = qbtState.CheckingDL THEN TorrentState.checking
  ELSE IF raw = qbtState.Error \/ raw = qbtState.StalledDL
    THEN TorrentState.error
  ELSE IF raw \in {qbtState.QueuedDL, qbtState.QueuedUP}
    THEN TorrentState.queued
  ELSE IF raw = qbtState.PausedDL \/ raw = qbtState.PausedUP
    THEN TorrentState.paused
  ELSE TorrentState.unknown

\* QBittorrent._normalizeTorrentData, on the fields the model's torrents
\* carry (the other fields of the result are copies of raw fields).
NormalizeTorrentData(torrent) ==
  [id |-> torrent.hash,
   stateMessage |-> "",
   state |-> NormalizeState(torrent.state),
   isCompleted |-> torrent.progress >= 100,
   progress |-> torrent.progress,
   label |-> torrent.category]

\* Raw torrent records of the daemon's list answer: the torrent with
\* hash h in any state, with or without a category, short of or at 100 %.
Categories == {"", "movies"}
Progresses == {99, 100}
Torrents(h) ==
  [hash : {h}, state : RawStates, category : Categories,
   progress : Progresses]

\* The hash of the i-th torrent of a list.
HashAt(i) == "h" \o ToString(i)

\* Every list of at most n torrents, each with a hash of its own.
TorrentLists(n) ==
  UNION {{l \in [1..k -> UNION {Torrents(HashAt(i)) : i \in 1..k}] :
            \A i \in 1..k : l[i].hash = HashAt(i)} : k \in 0..n}

\* The property names every JavaScript object inherits: labels[key] is a
\* truthy function for them although labels has no such key of its own.
ObjectPrototypeKeys ==
  {"constructor", "toString", "valueOf", "hasOwnProperty", "__proto__"}

\* Truthiness of labels[key] for the object literal labels.
LabelsHas(labels, key) ==
  key \in DOMAIN labels \/ key \in ObjectPrototypeKeys

RECURSIVE GetAllDataLoop(_, _, _)
\* The for-of loop of getAllData over the rest of the list, from the
\* results and labels built so far.  An unknown label takes the else
\* branch, which reads .count of labels[label]: of undefined.
GetAllDataLoop(rest, torrents, labels) ==
  IF Len(rest) = 0
    THEN [threw |-> FALSE, message |-> "", torrents |-> torrents]
  ELSE
    LET torrentData == NormalizeTorrentData(Head(rest))
        pushed == Append(torrents, torrentData)
    IN IF ~Truthy(torrentData.label)
         THEN GetAllDataLoop(Tail(rest), pushed, labels)
       ELSE IF LabelsHas(labels, torrentData.label)
         THEN GetAllDataLoop(
                Tail(rest), pushed,
                (torrentData.label :>
                   [id |-> torrentData.label, name |-> torrentData.label,
                    count |-> 1]) @@ labels)
       ELSE [threw |-> TRUE,
             message |-> "TypeError: Cannot read property 'count' of undefined",
             torrents |-> pushed]

(***************************************************************************)
(* What an operation hands back to its caller.                             *)
(***************************************************************************)
NoRet == [kind |-> "none"]
Returned(v) == [kind |-> "value", value |-> v]
Threw(message) == [kind |-> "error", message |-> message]

\* Response bodies.
NoBody == [kind |-> "none"]
ListBody(l) == [kind |-> "list", list |-> l]
TextBody(s) == [kind |-> "text", text |-> s]

\* The bodies the daemon may answer call c with; lists are the torrent
\* lists /torrents/info may answer with.
ResponseBodies(c, lists) ==
  CASE c.name \in ListOps -> {ListBody(l) : l \in lists}
    [] c.name = "addTorrent" -> {TextBody("Ok."), TextBody("Fails.")}
    [] c.name = "version" -> {TextBody("v4.1.5")}
    [] OTHER -> {TextBody("")}

\* The rest of each public method after its request has answered with
\* body b: the value it returns or the error it throws.
Finish(c, b) ==
  CASE c.name = "getTorrent" ->
         IF Len(b.list) = 0 THEN Threw("Torrent not found")
         ELSE Returned(NormalizeTorrentData(b.list[1]))
    [] c.name = "getAllData" ->
         LET r == GetAllDataLoop(b.list, <<>>, <<>>)
         IN IF r.threw THEN Threw(r.message)
            ELSE Returned([torrents |-> r.torrents, labels |-> <<>>])
    [] c.name = "listTorrents" -> Returned(b.list)
    [] c.name = "addTorrent" ->
         IF b.text = "Fails." THEN Threw("Failed to add torrent")
         ELSE Returned(TRUE)
    [] c.name \in {"version", "setFilePriority"} \cup HashOps ->
         Returned(b.text)
    [] OTHER -> Returned(TRUE)

(***************************************************************************)
(* Login responses.                                                        *)
(***************************************************************************)
\* The set-cookie lists a login answer may carry: none, one that
\* Cookie.parse cannot read, another cookie, the session cookie, and the
\* session cookie before or after another cookie.
SetCookieLists ==
  {<<>>,
   <<[parses |-> FALSE, key |-> "", value |-> ""]>>,
   <<[parses |-> TRUE, key |-> "JSESSIONID", value |-> "tokA"]>>,
   <<[parses |-> TRUE, key |-> "JSESSIONID", value |-> "tokA"],
     [parses |-> TRUE, key |-> "SID", value |-> "tokB"]>>,
   <<[parses |-> TRUE, key |-> "SID", value |-> "tokB"],
     [parses |-> TRUE, key |-> "JSESSIONID", value |-> "tokA"]>>}
  \cup {<<[parses |-> TRUE, key |-> "SID", value |-> t]>> : t \in Tokens}

\* A response of /auth/login: got.post rejects (status "error") or
\* resolves with headers that hold a set-cookie list or none.
LoginResponses ==
  {[status |-> "error", hasSetCookie |-> FALSE, setCookie |-> <<>>],
   [status |-> "ok", hasSetCookie |-> FALSE, setCookie |-> <<>>]}
  \cup {[status |-> "ok", hasSetCookie |-> TRUE, setCookie |-> l] :
          l \in SetCookieLists}

\* LoginOutcome without the test of the cookie's name: any cookie that
\* parses is taken for the session cookie.
LoginOutcomeAnyCookie(res) ==
  IF res.status = "error"
    THEN [ok |-> FALSE, value |-> Undefined, message |-> "HTTPError"]
  ELSE IF ~res.hasSetCookie \/ Len(res.setCookie) = 0
    THEN [ok |-> FALSE, value |-> Undefined,
          message |-> "Cookie not found. Auth Failed."]
  ELSE IF ~res.setCookie[1].parses
    THEN [ok |-> FALSE, value |-> Undefined, message |-> "Invalid cookie"]
  ELSE [ok |-> TRUE, value |-> res.setCookie[1].value, message |-> ""]

\* The checks of login between the answer of got.post and the
\* assignment of this._sid: the cookie value to store, or the error.
LoginOutcome(res) ==
  IF res.status = "error"
    THEN [ok |-> FALSE, value |-> Undefined, message |-> "HTTPError"]
  ELSE IF ~res.hasSetCookie \/ Len(res.setCookie) = 0
    THEN [ok |-> FALSE, value |-> Undefined,
          message |-> "Cookie not found. Auth Failed."]
  ELSE IF ~res.setCookie[1].parses \/ res.setCookie[1].key # "SID"
    THEN [ok |-> FALSE, value |-> Undefined, message |-> "Invalid cookie"]
  ELSE [ok |-> TRUE, value |-> res.setCookie[1].value, message |-> ""]

\* SidAfterLogin keeping a token the client already holds (first writer
\* wins).
SidAfterLoginKeepFirst(old, value) == IF old = Undefined THEN value ELSE old

\* `this._sid = cookie.value`
SidAfterLogin(old, value) == value

\* NeedsLogin without the test: every request logs in first.
NeedsLoginAlways(s) == TRUE

\* `if (!this._sid)` of request.
NeedsLogin(s) == ~Truthy(s)

(***************************************************************************)
(* The state.                                                              *)
(***************************************************************************)
VARIABLES
  config,     \* this.config
  sid,        \* this._sid
  pc,         \* where each caller's operation stands
  call,       \* each caller's call in progress
  req,        \* the target request sent for it
  nlogin,     \* login requests sent for it
  ntarget,    \* target requests sent for it
  hadSid,     \* whether request found a session token when it started
  done,       \* the call that finished last, with what it handed back,
              \* until the next call is made
  issued,     \* the cookie values the successful logins stored
  lastLogin,  \* the cookie value of the login that succeeded last
  logins,     \* login requests the transport has sent
  targets,    \* target requests the transport has sent
  started,    \* operations started
  logoutRet   \* what the last call of logout returned

vars == <<config, sid, pc, call, req, nlogin, ntarget, hadSid, done, issued,
          lastLogin, logins, targets, started, logoutRet>>

NoCall == Call("none", NoHashes, Undefined, Undefined)
LoginCall == Call("login", NoHashes, Undefined, Undefined)

\* The record of a finished call: the call, the requests sent for it, the
\* body its target request was answered with, what the caller got.
Done(p, b, r) ==
  [call |-> call[p], req |-> req[p], nlogin |-> nlogin[p],
   ntarget |-> ntarget[p], hadSid |-> hadSid[p], body |-> b, ret |-> r]

NoDone ==
  [call |-> NoCall, req |-> NoReq, nlogin |-> 0, ntarget |-> 0,
   hadSid |-> FALSE, body |-> NoBody, ret |-> NoRet]

\* new QBittorrent(options)
Init ==
  /\ config \in Configs
  /\ sid = Undefined
  /\ pc = [p \in Procs |-> "idle"]
  /\ call = [p \in Procs |-> NoCall]
  /\ req = [p \in Procs |-> NoReq]
  /\ nlogin = [p \in Procs |-> 0]
  /\ ntarget = [p \in Procs |-> 0]
  /\ hadSid = [p \in Procs |-> FALSE]
  /\ done = NoDone
  /\ issued = {}
  /\ lastLogin = Undefined
  /\ logins = 0
  /\ targets = 0
  /\ started = 0
  /\ logoutRet = "none"

\* got.post(url, options) of login: the login request leaves.
SendLogin(p) ==
  /\ pc' = [pc EXCEPT ![p] = "login_wait"]
  /\ nlogin' = [nlogin EXCEPT ![p] = @ + 1]
  /\ logins' = logins + 1
  /\ UNCHANGED <<req, ntarget, targets>>

\* request from its headers to got(url, options): the target request
\* leaves with the session token the client holds now.
SendTarget(p, c) ==
  /\ pc' = [pc EXCEPT ![p] = "target_wait"]
  /\ req' = [req EXCEPT ![p] = BuildRequest(ListCall(c), config, sid)]
  /\ ntarget' = [ntarget EXCEPT ![p] = @ + 1]
  /\ targets' = targets + 1
  /\ UNCHANGED <<nlogin, logins>>

\* The operation of caller p ends, handing back r.
Return(p, b, r) ==
  /\ done' = Done(p, b, r)
  /\ pc' = [pc EXCEPT ![p] = "idle"]
  /\ call' = [call EXCEPT ![p] = NoCall]
  /\ req' = [req EXCEPT ![p] = NoReq]
  /\ nlogin' = [nlogin EXCEPT ![p] = 0]
  /\ ntarget' = [ntarget EXCEPT ![p] = 0]
  /\ hadSid' = [hadSid EXCEPT ![p] = FALSE]

\* A caller calls login() itself, up to the await of got.post.
StartLogin(p) ==
  /\ pc[p] = "idle"
  /\ started < MaxOps
  /\ started' = started + 1
  /\ call' = [call EXCEPT ![p] = LoginCall]
  /\ hadSid' = [hadSid EXCEPT ![p] = Truthy(sid)]
  /\ SendLogin(p)
  /\ done' = NoDone
  /\ UNCHANGED <<config, sid, issued, lastLogin, logoutRet>>

\* A caller calls the operation c while the client holds no session
\* token: the method builds its parameters, request finds !this._sid and
\* calls login, which runs up to the await of got.post.
StartUnauthed(p, c) ==
  /\ pc[p] = "idle"
  /\ started < MaxOps
  /\ NeedsLogin(sid)
  /\ started' = started + 1
  /\ call' = [call EXCEPT ![p] = c]
  /\ hadSid' = [hadSid EXCEPT ![p] = FALSE]
  /\ SendLogin(p)
  /\ done' = NoDone
  /\ UNCHANGED <<config, sid, issued, lastLogin, logoutRet>>

\* A caller calls the operation c while the client holds a session token:
\* request skips login and runs to got(url, options) without an await.
StartAuthed(p, c) ==
  /\ pc[p] = "idle"
  /\ started < MaxOps
  /\ ~NeedsLogin(sid)
  /\ started' = started + 1
  /\ call' = [call EXCEPT ![p] = c]
  /\ hadSid' = [hadSid EXCEPT ![p] = TRUE]
  /\ SendTarget(p, c)
  /\ done' = NoDone
  /\ UNCHANGED <<config, sid, issued, lastLogin, logoutRet>>

\* got.post of login resolves with an answer that passes the cookie
\* checks: login stores the cookie value and returns true.  A caller of
\* login() gets that true; request goes on after its await (Resume).
LoginOk(p, res) ==
  /\ pc[p] = "login_wait"
  /\ LoginOutcome(res).ok
  /\ sid' = SidAfterLogin(sid, LoginOutcome(res).value)
  /\ issued' = issued \cup {res.setCookie[1].value}
  /\ lastLogin' = res.setCookie[1].value
  /\ IF call[p].name = "login"
       THEN Return(p, NoBody, Returned(TRUE))
       ELSE /\ pc' = [pc EXCEPT ![p] = "login_done"]
            /\ UNCHANGED <<call, req, nlogin, ntarget, hadSid, done>>
  /\ UNCHANGED <<config, logins, targets, started, logoutRet>>

\* got.post of login rejects, or resolves with an answer that fails the
\* cookie checks: login throws, and so does the request awaiting it and
\* the operation awaiting that.
LoginFail(p, res) ==
  /\ pc[p] = "login_wait"
  /\ ~LoginOutcome(res).ok
  /\ Return(p, NoBody, Threw(LoginOutcome(res).message))
  /\ UNCHANGED <<config, sid, issued, lastLogin, logins, targets, started,
                 logoutRet>>

\* request goes on after `await this.login()` (authed is true): it builds
\* the headers from this._sid as it is now and calls got.
Resume(p) ==
  /\ pc[p] = "login_done"
  /\ SendTarget(p, call[p])
  /\ UNCHANGED <<config, sid, call, hadSid, done, issued, lastLogin, started,
                 logoutRet>>

\* got resolves with body b: request returns the response and the method
\* that awaited it runs to its end.
TargetOk(p, b) ==
  /\ pc[p] = "target_wait"
  /\ Return(p, b, Finish(call[p], b))
  /\ UNCHANGED <<config, sid, issued, lastLogin, logins, targets, started,
                 logoutRet>>

\* TargetFail that also drops the session token, so that the next
\* operation logs in again.
TargetFailDropsSession(p) ==
  /\ pc[p] = "target_wait"
  /\ Return(p, NoBody, Threw("HTTPError"))
  /\ sid' = Undefined
  /\ UNCHANGED <<config, issued, lastLogin, logins, targets, started,
                 logoutRet>>

\* got rejects (a status that is not 2xx, a network error, a timeout):
\* the error passes through request and the method to the caller.
TargetFail(p) ==
  /\ pc[p] = "target_wait"
  /\ Return(p, NoBody, Threw("HTTPError"))
  /\ UNCHANGED <<config, sid, issued, lastLogin, logins, targets, started,
                 logoutRet>>

\* Logout that leaves the session token in place.
LogoutKeepsSession ==
  /\ logoutRet' = "true"
  /\ UNCHANGED <<config, sid, pc, call, req, nlogin, ntarget, hadSid, done,
                 issued, lastLogin, logins, targets, started>>

\* logout()
Logout ==
  /\ sid' = Undefined
  /\ logoutRet' = "true"
  /\ UNCHANGED <<config, pc, call, req, nlogin, ntarget, hadSid, done, issued,
                 lastLogin, logins, targets, started>>

(***************************************************************************)
(* Spec: concurrent callers of one client, with login() and logout()       *)
(* called at any moment.                                                   *)
(***************************************************************************)
\* The operations the concurrent callers choose from.
GateCalls ==
  {Call("version", NoHashes, Undefined, Undefined),
   Call("listTorrents", NoHashes, Undefined, Undefined)}

\* The torrent lists the daemon answers these callers with.
GateLists == {<<>>}

\* The daemon answers the target request of caller p.
AnswerTarget(p, lists) ==
  \E b \in ResponseBodies(call[p], lists) : TargetOk(p, b)

Next ==
  \/ \E p \in Procs : StartLogin(p)
  \/ \E p \in Procs, c \in GateCalls : StartUnauthed(p, c)
  \/ \E p \in Procs, c \in GateCalls : StartAuthed(p, c)
  \/ \E p \in Procs, res \in LoginResponses : LoginOk(p, res)
  \/ \E p \in Procs, res \in LoginResponses : LoginFail(p, res)
  \/ \E p \in Procs : Resume(p)
  \/ \E p \in Procs : AnswerTarget(p, GateLists)
  \/ \E p \in Procs : TargetFail(p)
  \/ Logout

Spec == Init /\ [][Next]_vars

(***************************************************************************)
(* SeqSpec: the operations of one client issued one after another, each    *)
(* finishing before the next starts, every login answered with a session   *)
(* cookie, and no call of login() or logout().                             *)
(***************************************************************************)
\* Every request-based operation, called with sample arguments.
AllCalls ==
  {Call(n, HashString("h1"), Undefined, Undefined) :
     n \in (DirectOps \ {"listTorrents", "version"}) \cup {"getTorrent"}}
  \cup {Call(n, NoHashes, Undefined, Undefined) :
          n \in {"listTorrents", "version", "getAllData"}}

AllIdle == \A q \in Procs : pc[q] = "idle"

SeqNext ==
  \/ \E p \in Procs, c \in AllCalls : AllIdle /\ StartUnauthed(p, c)
  \/ \E p \in Procs, c \in AllCalls : AllIdle /\ StartAuthed(p, c)
  \/ \E p \in Procs, res \in LoginResponses : LoginOk(p, res)
  \/ \E p \in Procs : Resume(p)
  \/ \E p \in Procs : AnswerTarget(p, GateLists)
  \/ \E p \in Procs : TargetFail(p)

SeqSpec == Init /\ [][SeqNext]_vars

(***************************************************************************)
(* ApiSpec: one caller going through the operations with the arguments     *)
(* and the daemon's answers varied.                                        *)
(***************************************************************************)
HashArgs == {NoHashes, HashString("h1"), HashArray(<<"h1", "h2">>)}
Filters == {Undefined, "paused"}
CategoryArgs == {Undefined} \cup Categories

\* listTorrents with every combination of its three arguments, the bulk
\* operations with every shape of hash set, the rest with a sample.
ApiCalls ==
  {Call("listTorrents", h, f, g) :
     h \in HashArgs, f \in Filters, g \in CategoryArgs}
  \cup {Call(n, h, Undefined, Undefined) :
          n \in HashesOps, h \in HashArgs \ {NoHashes}}
  \cup AllCalls

\* The torrent lists /torrents/info may answer with.
ApiLists == TorrentLists(MaxTorrents)

\* listTorrents hands the list through untouched: its callers here get
\* the short answers, getTorrent and getAllData every list.
ApiListsFor(c) == IF c.name = "listTorrents" THEN GateLists ELSE ApiLists

ApiNext ==
  \/ \E c \in ApiCalls : StartUnauthed(1, c)
  \/ \E c \in ApiCalls : StartAuthed(1, c)
  \/ \E res \in LoginResponses : LoginOk(1, res)
  \/ \E res \in LoginResponses : LoginFail(1, res)
  \/ Resume(1)
  \/ AnswerTarget(1, ApiListsFor(call[1]))
  \/ TargetFail(1)

ApiSpec == Init /\ [][ApiNext]_vars

(***************************************************************************)
(* The claims.                                                             *)
(***************************************************************************)
\* The mapping table of the specification, section 4.2.
TableState(raw) ==
  CASE raw \in {"uploading", "checkingUP"} -> "seeding"
    [] raw = "downloading" -> "downloading"
    [] raw = "checkingDL" -> "checking"
    [] raw \in {"error", "stalledDL"} -> "error"
    [] raw \in {"queuedDL", "queuedUP"} -> "queued"
    [] raw \in {"pausedDL", "pausedUP"} -> "paused"
    [] OTHER -> "unknown"

\* C1: the normalized state of every torrent _normalizeTorrentData
\* returns (through getTorrent, and through getAllData for each torrent
\* of the list) is the one the mapping table gives for its raw state.
C1_StateFollowsTable ==
  /\ (done.call.name = "getTorrent" /\ done.ret.kind = "value")
       => done.ret.value.state = TableState(done.body.list[1].state)
  /\ (done.call.name = "getAllData" /\ done.ret.kind = "value")
       => \A i \in 1..Len(done.ret.value.torrents) :
            done.ret.value.torrents[i].state
              = TableState(done.body.list[i].state)

\* A login step of caller p: its login request is answered.
LoginAnswered(p) == pc[p] = "login_wait" /\ pc'[p] # "login_wait"

\* A step in which caller p starts an operation.
Starts(p) == pc[p] = "idle" /\ pc'[p] # "idle"

\* C2: with the operations issued one after another, logins succeeding
\* and no logout, the first operation sends one login request and then
\* its target request, every later operation sends its target request
\* and no login request; so one login request is sent in all, and a
\* first listTorrents makes exactly two outbound requests.
C2_OneLoginThenNone ==
  /\ logins = (IF started = 0 THEN 0 ELSE 1)
  /\ \A p \in Procs :
       /\ pc[p] \in {"login_wait", "login_done"}
            => started = 1 /\ nlogin[p] = 1 /\ ntarget[p] = 0
       /\ pc[p] = "target_wait"
            => /\ ntarget[p] = 1
               /\ nlogin[p] = (IF started = 1 THEN 1 ELSE 0)
               /\ req[p].cookie = "SID=" \o sid
  /\ done.call.name # "none"
       => /\ done.ntarget = 1
          /\ done.nlogin = (IF started = 1 THEN 1 ELSE 0)
          /\ targets = started
  /\ (done.call.name = "listTorrents" /\ started = 1)
       => logins + targets = 2

C2_Witness ==
  /\ started = MaxOps
  /\ done.call.name = "listTorrents"
  /\ done.nlogin = 0
  /\ logins = 1
  /\ targets = MaxOps

\* C3: every target request sent, in flight or answered, carries as its
\* SID cookie a token some successful login returned.
C3_TargetCarriesIssuedToken ==
  /\ \A p \in Procs :
       req[p] # NoReq => \E t \in issued : req[p].cookie = "SID=" \o t
  /\ done.req # NoReq => \E t \in issued : done.req.cookie = "SID=" \o t

\* A login answer without a session cookie: no set-cookie header (or an
\* empty one), or a first cookie that is not named SID.
NoSessionCookie(res) ==
  /\ res.status = "ok"
  /\ \/ ~res.hasSetCookie
     \/ Len(res.setCookie) = 0
     \/ ~res.setCookie[1].parses
     \/ res.setCookie[1].key # "SID"

\* C4: a login whose answer has no session cookie fails with an error
\* and leaves the stored token as it was.
C4_FailedLoginStoresNoToken ==
  [][\A p \in Procs :
       LoginAnswered(p) =>
         \A res \in LoginResponses :
           (NoSessionCookie(res) /\ (LoginOk(p, res) \/ LoginFail(p, res)))
             => /\ sid' = sid
                /\ issued' = issued
                /\ done'.ret.kind = "error"
                /\ done'.ntarget = 0
                /\ pc'[p] = "idle"]_vars

C4_Witness ==
  /\ done.ret = Threw("Invalid cookie")
  /\ done.call.name = "login"
  /\ sid \in Tokens

\* C5: logout sends no request, returns true, leaves the configuration
\* alone and the token absent; an operation started while the token is
\* absent sends a login request before any target request.
C5_LogoutClearsSession ==
  [][/\ Logout
          => /\ sid' = Undefined
             /\ logoutRet' = "true"
             /\ config' = config
             /\ logins' = logins
             /\ targets' = targets
     /\ \A p \in Procs, c \in GateCalls :
          (sid = Undefined /\ Starts(p)
           /\ (StartUnauthed(p, c) \/ StartAuthed(p, c)))
            => /\ pc'[p] = "login_wait"
               /\ logins' = logins + 1
               /\ targets' = targets
               /\ req'[p] = NoReq]_vars

C5_Witness ==
  /\ logoutRet = "true"
  /\ issued # {}
  /\ sid = Undefined
  /\ \E p \in Procs :
       /\ pc[p] = "login_wait"
       /\ call[p].name = "listTorrents"
       /\ \A q \in Procs \ {p} : pc[q] = "idle"

\* C6: two different methods that call request never send their
\* requests to the same endpoint path: a request sent right after the
\* request of another method has finished goes to another path.
C6_EndpointsOneToOne ==
  [][\A p \in Procs :
       (done.req # NoReq /\ req'[p] # NoReq /\ req'[p].op # done.req.op)
         => req'[p].path # done.req.path]_vars

\* C7: listTorrents sends a category parameter exactly when a category
\* is passed, the empty string included, with the value passed.
C7_EmptyCategorySent ==
  \A p \in Procs :
    (req[p] # NoReq /\ call[p].name = "listTorrents")
      => IF call[p].category = Undefined
           THEN "category" \notin DOMAIN req[p].query
           ELSE /\ "category" \in DOMAIN req[p].query
                /\ req[p].query["category"] = call[p].category

\* C8: callers that start without a token each send a login request of
\* their own; whenever a login succeeds the stored token becomes the
\* value that login returned, so a stored token is always the value of
\* the login that succeeded last.
C8_LastLoginWins ==
  /\ [](sid # Undefined => sid = lastLogin)
  /\ [][(\E p \in Procs :
            /\ LoginAnswered(p)
            /\ pc'[p] = "login_done" \/ done'.ret = Returned(TRUE))
          => (sid' = lastLogin' /\ sid' \in Tokens)]_vars

C8_Witness ==
  /\ logoutRet = "none"
  /\ \E p, q \in Procs :
       /\ p # q
       /\ pc[p] = "login_done" /\ nlogin[p] = 1
       /\ pc[q] = "login_done" /\ nlogin[q] = 1
  /\ logins = 2
  /\ issued = Tokens
  /\ sid = lastLogin

\* C9: an operation started with a session token sends no login request
\* and, when its target request fails, has sent that one request only;
\* the failure reaches the caller, sends nothing more and leaves the
\* token as it was, and the operations started afterwards send their
\* target request with the token held, without a login.
C9_NoRetryNoRelogin ==
  /\ [](\A p \in Procs :
          (hadSid[p] /\ call[p].name # "login")
            => nlogin[p] = 0 /\ ntarget[p] = 1)
  /\ []((done.hadSid /\ done.call.name \notin {"login", "none"})
          => done.nlogin = 0 /\ done.ntarget = 1)
  /\ [][/\ \A p \in Procs :
             TargetFail(p)
               => /\ sid' = sid
                  /\ logins' = logins
                  /\ targets' = targets
                  /\ done'.ret.kind = "error"
                  /\ pc'[p] = "idle"
        /\ \A p \in Procs, c \in GateCalls :
             (sid # Undefined /\ Starts(p)
              /\ (StartUnauthed(p, c) \/ StartAuthed(p, c)))
               => /\ logins' = logins
                  /\ sid' = sid
                  /\ req'[p].cookie = "SID=" \o sid]_vars

C9_Witness ==
  /\ done.ret = Threw("HTTPError")
  /\ done.hadSid
  /\ done.nlogin = 0
  /\ done.ntarget = 1
  /\ sid \in Tokens
  /\ done.req.cookie = "SID=" \o sid

\* C10: getAllData returns, for every list the daemon answers with, one
\* normalized record for each torrent of the list, in the list's order.
C10_GetAllDataReturnsEveryTorrent ==
  (done.call.name = "getAllData" /\ done.body.kind = "list")
    => /\ done.ret.kind = "value"
       /\ Len(done.ret.value.torrents) = Len(done.body.list)
       /\ \A i \in 1..Len(done.body.list) :
            done.ret.value.torrents[i]
              = NormalizeTorrentData(done.body.list[i])

====
